---- MODULE Spec2Model ----
(***************************************************************************)
(* Race Dash core data acquisition: the thread-safe SignalBuffer of        *)
(* race_dash_core.py, driven by client threads that call its public        *)
(* methods.  Every statement executed inside a `with self.lock` block is   *)
(* one step, so that the effect of the lock on the interleavings is part   *)
(* of the model and not assumed.                                           *)
(***************************************************************************)
EXTENDS Integers, Sequences, FiniteSets, TLC

(***************************************************************************)
(* Bounds of the model.                                                    *)
(***************************************************************************)
\* write calls (update / update_multiple) made in one run of Spec and SpecSeq
MaxWrites == 2
\* read calls (get / get_all / get_history) made in one run of Spec and SpecSeq
MaxReads == 1
\* largest `count` handed to get_history
MaxCount == 1
\* write calls made after the warm-up of SpecRing
RingTail == 3

\* the values time.time() takes during a run
Times == {0, 1}

(***************************************************************************)
(* Program constants.                                                      *)
(***************************************************************************)
\* deque(maxlen=100)
HistoryMaxLen == 100

\* the signal channels of SignalBuffer.data
Channels == {"rpm", "speed", "throttle", "brake", "coolant_temp", "oil_pressure"}

\* the keys of SignalBuffer.data after construction
DataKeys == Channels \cup {"timestamp"}

\* a key that __init__ does not declare
UndeclaredKey == "gps"

AllKeys == DataKeys \cup {UndeclaredKey}

\* a faulty variant: the dict literal lacks 'brake'
InitDataNoBrake == [k \in DataKeys \ {"brake"} |-> 0]

\* the dict built by __init__: every key 0
InitData == [k \in DataKeys |-> 0]

\* one empty deque per key of data
InitHistory == [k \in DataKeys |-> <<>>]

(***************************************************************************)
(* The client threads and the inputs they hand to the buffer.              *)
(***************************************************************************)
ThreadIds == {"t1", "t2"}

NoThread == "none"

\* the thread that runs the application: it creates the workers and handles the events
MainThread == "main"

\* the CANThread objects: the one made at start-up and the one a restart would make
CanWorkers == {"can", "can2"}

\* the SensorThread object
SensorWorkers == {"sensor"}

WorkerIds == CanWorkers \cup SensorWorkers

AllThreads == ThreadIds \cup {MainThread} \cup WorkerIds

\* keys handed to update, get and get_history
KeyInputs == {"rpm", UndeclaredKey}

\* the mapping a CAN tick writes: all six channels, in the order of the dict literal
FullBatch == <<"rpm", "speed", "coolant_temp", "oil_pressure", "throttle", "brake">>

\* key lists of the mappings handed to update_multiple (dicts keep insertion order)
BatchShapes == {FullBatch, <<"speed", "rpm">>, <<UndeclaredKey, "rpm">>}

(***************************************************************************)
(* Python built-ins used by the buffer.                                    *)
(***************************************************************************)
\* a faulty variant: d.setdefault(k, v), which keeps the value of a key d has
DictSetDefault(d, k, v) == [x \in (DOMAIN d) \cup {k} |-> IF x \in DOMAIN d THEN d[x] ELSE v]

\* d[k] = v on a dict: adds the key when it is absent
DictSet(d, k, v) == [x \in (DOMAIN d) \cup {k} |-> IF x = k THEN v ELSE d[x]]

\* d.get(k, default)
DictGet(d, k, default) == IF k \in DOMAIN d THEN d[k] ELSE default

\* a faulty variant: a full deque refuses the new item
DequeAppendDropsNewest(q, x) == IF Len(q) >= HistoryMaxLen THEN q ELSE Append(q, x)

\* a faulty variant: a deque without maxlen
DequeAppendUnbounded(q, x) == Append(q, x)

\* deque(maxlen=HistoryMaxLen).append(x): a full deque drops its oldest item
DequeAppend(q, x) == IF Len(q) >= HistoryMaxLen THEN Tail(q) \o <<x>> ELSE Append(q, x)

\* lst[start:] for an int start (a negative start counts from the end)
PySliceFrom(lst, start) ==
    LET n == Len(lst)
        s == IF start < 0 THEN (IF n + start < 0 THEN 0 ELSE n + start)
                          ELSE (IF start > n THEN n ELSE start)
    IN  SubSeq(lst, s + 1, n)

\* the truth value of `count` in `if count:` (None and 0 are false)
Truthy(hasCount, count) == hasCount /\ count # 0

VARIABLES
    lock,       \* SignalBuffer.lock: the thread inside a `with self.lock`, or NoThread
    data,       \* SignalBuffer.data
    history,    \* SignalBuffer.history
    clock,      \* what time.time() returns
    pc,         \* each thread's position
    frame,      \* each thread's current call: its arguments and loop index
    res,        \* what each thread's last read call returned
    prevSnap,   \* the get_all result a thread held when its get_all returned the next
    reads,      \* read calls made so far
    nextTag,    \* the value the next write call writes: each write call writes a fresh
                \* value, numbered in the order the calls entered the lock
    effect,     \* per key, the values assigned to data[key], in order
    written,    \* per key, the (timestamp, value) pairs appended to history[key], in order
    lastWrite,  \* per key, the value of the last write call made for it
    simulate,   \* per worker, CANThread.simulate / SensorThread.simulate
    stop_event, \* per worker, whether its stop_event is set
    locals,     \* per worker, the local variables of _simulate_can
    ticks,      \* per worker, the turns of its loop begun so far
    rng,        \* the state of the generator behind random.randint
    app         \* the application object: its threads and its selected source; and, for
                \* the record, the stop() calls made on each worker and the runs of
                \* _apply_settings that came to their end

\* the state of the acquisition workers and of the application that owns them
workerVars == <<simulate, stop_event, locals, ticks, rng, app>>

vars == <<lock, data, history, clock, pc, frame, res, prevSnap, reads,
          nextTag, effect, written, lastWrite, workerVars>>


NoFrame == [op |-> "none", key |-> "", value |-> 0, updates |-> <<>>, i |-> 0,
            hasCount |-> FALSE, count |-> 0, pre |-> <<>>]

\* the buffer as a write call finds it when it enters the lock, kept with the call's frame
\* for the record
Found == [data |-> data, history |-> history]

\* the locals of a worker that has not entered its loop
NoLocals == [rpm |-> 0, speed |-> 0, rpm_direction |-> 0, throttle |-> 0, brake |-> 0]

\* the application before its threads exist
NoApp == [can_thread |-> NoThread, sensor_thread |-> NoThread, simulate |-> TRUE,
          stops |-> [w \in WorkerIds |-> 0], restarts |-> 0]

\* what a thread holds before its first read call returns
NoObject == [kind |-> "none", alias |-> FALSE, key |-> "", val |-> <<>>]

\* the state after SignalBuffer() with the threads of `started` running and
\* time.time() at t0
InitWith(started, t0) ==
    /\ lock = NoThread
    /\ data = InitData
    /\ history = InitHistory
    /\ clock = t0
    /\ pc = [p \in AllThreads |-> IF p \in started THEN "idle" ELSE "off"]
    /\ frame = [p \in AllThreads |-> NoFrame]
    /\ res = [p \in AllThreads |-> NoObject]
    /\ prevSnap = [p \in AllThreads |-> NoObject]
    /\ reads = 0
    /\ nextTag = 1
    /\ effect = [k \in AllKeys |-> <<>>]
    /\ written = [k \in AllKeys |-> <<>>]
    /\ lastWrite = [k \in AllKeys |-> 0]
    /\ simulate = [w \in WorkerIds |-> TRUE]
    /\ stop_event = [w \in WorkerIds |-> FALSE]
    /\ locals = [w \in WorkerIds |-> NoLocals]
    /\ ticks = [w \in WorkerIds |-> 0]
    /\ rng = 0
    /\ app = NoApp

Init == InitWith(ThreadIds, 0)

\* the values a call of time.time() may return now: the clock may have moved on
\* since it was last read
Now == {clock, clock + 1} \cap Times

(***************************************************************************)
(* threading.Lock                                                          *)
(***************************************************************************)
\* a faulty variant: acquire never waits
LockNotExclusive(p) == TRUE

\* acquire() returns only while no thread holds the lock
LockAvailable(p) == lock = NoThread

\* __enter__ of `with self.lock`
Acquire(p, from, to) ==
    /\ pc[p] = from
    /\ LockAvailable(p)
    /\ lock' = p
    /\ pc' = [pc EXCEPT ![p] = to]

\* a faulty variant: the block is left with the lock still held
ReleaseForgotten(p) == lock' = lock

\* __exit__ of `with self.lock`, on return or on an exception
Release(p) == lock' = NoThread


(***************************************************************************)
(* SignalBuffer.update(key, value)                                         *)
(***************************************************************************)
\* a client calls update(key, nextTag) for some key of `keys`;
\* line 31: with self.lock (the call waits here until the lock is free)
StartUpdate(p, keys) ==
    /\ Acquire(p, "idle", "update_32")
    /\ \E key \in keys :
        /\ frame' = [frame EXCEPT ![p] = [NoFrame EXCEPT !.op = "update", !.key = key,
                                                          !.value = nextTag, !.pre = Found]]
        /\ lastWrite' = [lastWrite EXCEPT ![key] = nextTag]
    /\ nextTag' = nextTag + 1
    /\ UNCHANGED <<workerVars, data, history, clock, res, prevSnap, reads, effect, written>>

CallUpdate(p) == nextTag <= MaxWrites /\ StartUpdate(p, KeyInputs)

\* line 32: self.data[key] = value
update_set(p) ==
    /\ pc[p] = "update_32"
    /\ data' = DictSet(data, frame[p].key, frame[p].value)
    /\ effect' = [effect EXCEPT ![frame[p].key] = Append(@, frame[p].value)]
    /\ pc' = [pc EXCEPT ![p] = "update_33"]
    /\ UNCHANGED <<workerVars, lock, history, clock, frame, res, prevSnap, reads,
                   nextTag, written, lastWrite>>

\* line 33: self.data['timestamp'] = time.time()
update_stamp(p) ==
    /\ pc[p] = "update_33"
    /\ \E now \in Now :
        /\ clock' = now
        /\ data' = DictSet(data, "timestamp", now)
    /\ pc' = [pc EXCEPT ![p] = "update_34"]
    /\ UNCHANGED <<workerVars, lock, history, frame, res, prevSnap, reads,
                   nextTag, effect, written, lastWrite>>

\* line 34: self.history[key].append((time.time(), value)); the block ends and
\* update returns
update_append(p) ==
    /\ pc[p] = "update_34"
    /\ frame[p].key \in DOMAIN history
    /\ \E now \in Now :
        /\ clock' = now
        /\ history' = [history EXCEPT ![frame[p].key] =
                           DequeAppend(@, <<now, frame[p].value>>)]
        /\ written' = [written EXCEPT ![frame[p].key] =
                           Append(@, <<now, frame[p].value>>)]
    /\ Release(p)
    /\ pc' = [pc EXCEPT ![p] = "idle"]
    /\ frame' = [frame EXCEPT ![p] = NoFrame]
    /\ UNCHANGED <<workerVars, data, res, prevSnap, reads, nextTag, effect,
                   lastWrite>>

\* line 34 with a key that has no deque: self.history[key] raises KeyError, the
\* block releases the lock and the exception leaves update
update_keyerror(p) ==
    /\ pc[p] = "update_34"
    /\ frame[p].key \notin DOMAIN history
    /\ Release(p)
    /\ pc' = [pc EXCEPT ![p] = "raised"]
    /\ frame' = [frame EXCEPT ![p] = NoFrame]
    /\ UNCHANGED <<workerVars, data, history, clock, res, prevSnap, reads, nextTag,
                   effect, written, lastWrite>>

(***************************************************************************)
(* SignalBuffer.update_multiple(updates)                                   *)
(***************************************************************************)
\* the dict {k1: tag, k2: tag, ...} as its list of items
ItemsOf(shape, tag) == [n \in 1..Len(shape) |-> <<shape[n], tag>>]

\* the set of keys of a key list
KeysOf(shape) == {shape[n] : n \in 1..Len(shape)}

\* a client calls update_multiple with a mapping of one of `shapes`, every value nextTag;
\* line 38: with self.lock (the call waits here until the lock is free)
StartUpdateMultiple(p, shapes) ==
    /\ \E shape \in shapes :
        /\ Acquire(p, "idle", IF Len(shape) = 0 THEN "um_41" ELSE "um_40")
        /\ frame' = [frame EXCEPT ![p] = [NoFrame EXCEPT !.op = "update_multiple",
                                              !.updates = ItemsOf(shape, nextTag),
                                              !.value = nextTag, !.i = 1,
                                              !.pre = Found]]
        /\ lastWrite' = [k \in AllKeys |->
                            IF k \in KeysOf(shape) THEN nextTag ELSE lastWrite[k]]
    /\ nextTag' = nextTag + 1
    /\ UNCHANGED <<workerVars, data, history, clock, res, prevSnap, reads, effect, written>>

CallUpdateMultiple(p) == nextTag <= MaxWrites /\ StartUpdateMultiple(p, BatchShapes)

\* lines 39-40: one turn of `for key, value in updates.items(): self.data[key] = value`
um_set(p) ==
    /\ pc[p] = "um_40"
    /\ LET item == frame[p].updates[frame[p].i]
           last == frame[p].i = Len(frame[p].updates)
       IN  /\ data' = DictSet(data, item[1], item[2])
           /\ effect' = [effect EXCEPT ![item[1]] = Append(@, item[2])]
           /\ frame' = [frame EXCEPT ![p].i = IF last THEN 1 ELSE @ + 1]
           /\ pc' = [pc EXCEPT ![p] = IF last THEN "um_41" ELSE "um_40"]
    /\ UNCHANGED <<workerVars, lock, history, clock, res, prevSnap, reads,
                   nextTag, written, lastWrite>>

\* where update_multiple returns to: a worker goes on to line 120, its inter-tick wait
ReturnPc(p) == IF p \in WorkerIds THEN "wait_120" ELSE "idle"

\* a faulty variant: the second loop is left after its first turn
um_return_early(p) ==
    /\ Release(p)
    /\ pc' = [pc EXCEPT ![p] = ReturnPc(p)]
    /\ frame' = [frame EXCEPT ![p] = NoFrame]

\* what follows the last turn of the second loop: the block ends, update_multiple returns
um_advance(p) ==
    IF frame[p].i >= Len(frame[p].updates)
    THEN /\ Release(p)
         /\ pc' = [pc EXCEPT ![p] = ReturnPc(p)]
         /\ frame' = [frame EXCEPT ![p] = NoFrame]
    ELSE /\ UNCHANGED lock
         /\ pc' = [pc EXCEPT ![p] = "um_43"]
         /\ frame' = [frame EXCEPT ![p].i = @ + 1]

\* line 41: self.data['timestamp'] = time.time()
um_stamp(p) ==
    /\ pc[p] = "um_41"
    /\ \E now \in Now :
        /\ clock' = now
        /\ data' = DictSet(data, "timestamp", now)
    /\ IF Len(frame[p].updates) = 0
       THEN /\ Release(p)
            /\ pc' = [pc EXCEPT ![p] = ReturnPc(p)]
            /\ frame' = [frame EXCEPT ![p] = NoFrame]
       ELSE /\ UNCHANGED <<lock, frame>>
            /\ pc' = [pc EXCEPT ![p] = "um_43"]
    /\ UNCHANGED <<workerVars, history, res, prevSnap, reads,
                   nextTag, effect, written, lastWrite>>

\* lines 42-44: one turn of the second loop with `key in self.history`:
\* self.history[key].append((time.time(), value))
um_append(p) ==
    /\ pc[p] = "um_43"
    /\ LET item == frame[p].updates[frame[p].i]
       IN  /\ item[1] \in DOMAIN history
           /\ \E now \in Now :
               /\ clock' = now
               /\ history' = [history EXCEPT ![item[1]] = DequeAppend(@, <<now, item[2]>>)]
               /\ written' = [written EXCEPT ![item[1]] = Append(@, <<now, item[2]>>)]
    /\ um_advance(p)
    /\ UNCHANGED <<workerVars, data, res, prevSnap, reads, nextTag, effect,
                   lastWrite>>

\* lines 42-43: one turn of the second loop with a key that has no deque: nothing appended
um_skip(p) ==
    /\ pc[p] = "um_43"
    /\ frame[p].updates[frame[p].i][1] \notin DOMAIN history
    /\ um_advance(p)
    /\ UNCHANGED <<workerVars, data, history, clock, res, prevSnap, reads, nextTag,
                   effect, written, lastWrite>>


(***************************************************************************)
(* SignalBuffer.get(key)                                                   *)
(***************************************************************************)
\* a client calls get(key); line 48: with self.lock
StartGet(p) ==
    /\ reads' = reads + 1
    /\ Acquire(p, "idle", "get_49")
    /\ \E key \in KeyInputs :
        frame' = [frame EXCEPT ![p] = [NoFrame EXCEPT !.op = "get", !.key = key]]
    /\ UNCHANGED <<workerVars, data, history, clock, res, prevSnap,
                   nextTag, effect, written, lastWrite>>

CallGet(p) == reads < MaxReads /\ StartGet(p)

\* what get(key) returns on the dict d
get_result(d, key) == DictGet(d, key, 0)

\* a faulty variant: the read goes through setdefault, which stores the default for a
\* key that is missing
get_return_setdefault(p) ==
    /\ pc[p] = "get_49"
    /\ res' = [res EXCEPT ![p] = [kind |-> "get", alias |-> FALSE, key |-> frame[p].key,
                                  val |-> DictGet(data, frame[p].key, 0)]]
    /\ data' = DictSetDefault(data, frame[p].key, 0)
    /\ Release(p)
    /\ pc' = [pc EXCEPT ![p] = "idle"]
    /\ frame' = [frame EXCEPT ![p] = NoFrame]
    /\ UNCHANGED <<workerVars, history, clock, prevSnap, reads,
                   nextTag, effect, written, lastWrite>>

\* line 49: return self.data.get(key, 0)
get_return(p) ==
    /\ pc[p] = "get_49"
    /\ res' = [res EXCEPT ![p] = [kind |-> "get", alias |-> FALSE, key |-> frame[p].key,
                                  val |-> get_result(data, frame[p].key)]]
    /\ Release(p)
    /\ pc' = [pc EXCEPT ![p] = "idle"]
    /\ frame' = [frame EXCEPT ![p] = NoFrame]
    /\ UNCHANGED <<workerVars, data, history, clock, prevSnap, reads,
                   nextTag, effect, written, lastWrite>>

(***************************************************************************)
(* SignalBuffer.get_all()                                                  *)
(***************************************************************************)
\* a client calls get_all(); line 53: with self.lock
StartGetAll(p) ==
    /\ reads' = reads + 1
    /\ Acquire(p, "idle", "get_all_54")
    /\ frame' = [frame EXCEPT ![p] = [NoFrame EXCEPT !.op = "get_all"]]
    /\ UNCHANGED <<workerVars, data, history, clock, res, prevSnap,
                   nextTag, effect, written, lastWrite>>

CallGetAll(p) == reads < MaxReads /\ StartGetAll(p)

\* a faulty variant: the dict itself is handed out, not a copy of it
DictAlias(d) == [kind |-> "get_all", alias |-> TRUE, key |-> "", val |-> d]

\* d.copy(): a new dict holding the items d has now
DictCopy(d) == [kind |-> "get_all", alias |-> FALSE, key |-> "", val |-> d]

\* line 54: return self.data.copy(); the caller keeps the snapshot it held before
get_all_return(p) ==
    /\ pc[p] = "get_all_54"
    /\ res' = [res EXCEPT ![p] = DictCopy(data)]
    /\ prevSnap' = [prevSnap EXCEPT ![p] = IF res[p].kind = "get_all" THEN res[p]
                                                                       ELSE NoObject]
    /\ Release(p)
    /\ pc' = [pc EXCEPT ![p] = "idle"]
    /\ frame' = [frame EXCEPT ![p] = NoFrame]
    /\ UNCHANGED <<workerVars, data, history, clock, reads,
                   nextTag, effect, written, lastWrite>>

(***************************************************************************)
(* SignalBuffer.get_history(key, count=None)                               *)
(***************************************************************************)
\* a client calls get_history(key, count), count None (hasCount false) or an int
\* of 0..MaxCount; line 58: with self.lock
StartGetHistory(p) ==
    /\ reads' = reads + 1
    /\ Acquire(p, "idle", "gh_59")
    /\ \E key \in KeyInputs, hasCount \in BOOLEAN, count \in 0..MaxCount :
        /\ hasCount \/ count = 0
        /\ frame' = [frame EXCEPT ![p] = [NoFrame EXCEPT !.op = "get_history",
                        !.key = key, !.hasCount = hasCount, !.count = count]]
    /\ UNCHANGED <<workerVars, data, history, clock, res, prevSnap,
                   nextTag, effect, written, lastWrite>>

CallGetHistory(p) == reads < MaxReads /\ StartGetHistory(p)

\* lines 59-61 on the deque q: list(q)[-count:] if count is true, else list(q)
get_history_result(q, hasCount, count) ==
    IF Truthy(hasCount, count) THEN PySliceFrom(q, 0 - count) ELSE q

\* list(...): a new list holding the items
ListCopy(key, lst) == [kind |-> "get_history", alias |-> FALSE, key |-> key, val |-> lst]

\* lines 59-61 with a key that has a deque
gh_return(p) ==
    /\ pc[p] = "gh_59"
    /\ frame[p].key \in DOMAIN history
    /\ res' = [res EXCEPT ![p] =
                   ListCopy(frame[p].key,
                            get_history_result(history[frame[p].key],
                                               frame[p].hasCount, frame[p].count))]
    /\ Release(p)
    /\ pc' = [pc EXCEPT ![p] = "idle"]
    /\ frame' = [frame EXCEPT ![p] = NoFrame]
    /\ UNCHANGED <<workerVars, data, history, clock, prevSnap, reads,
                   nextTag, effect, written, lastWrite>>

\* lines 59-61 with a key that has no deque: self.history[key] raises KeyError
gh_keyerror(p) ==
    /\ pc[p] = "gh_59"
    /\ frame[p].key \notin DOMAIN history
    /\ Release(p)
    /\ pc' = [pc EXCEPT ![p] = "raised"]
    /\ frame' = [frame EXCEPT ![p] = NoFrame]
    /\ UNCHANGED <<workerVars, data, history, clock, res, prevSnap, reads,
                   nextTag, effect, written, lastWrite>>

\* what the holder of a returned dict or list sees in it now
Contents(obj, live) == IF obj.alias THEN live ELSE obj.val

(***************************************************************************)
(* Specifications                                                          *)
(***************************************************************************)
UpdateSteps(p) ==
    \/ update_set(p)
    \/ update_stamp(p)
    \/ update_append(p)
    \/ update_keyerror(p)

UpdateMultipleSteps(p) ==
    \/ um_set(p)
    \/ um_stamp(p)
    \/ um_append(p)
    \/ um_skip(p)

ReadSteps(p) ==
    \/ get_return(p)
    \/ get_all_return(p)
    \/ gh_return(p)
    \/ gh_keyerror(p)

\* any number of threads, each calling any public method with any input
Next ==
    \/ \E p \in ThreadIds :
        \/ CallUpdate(p)
        \/ CallUpdateMultiple(p)
        \/ CallGet(p)
        \/ CallGetAll(p)
        \/ CallGetHistory(p)
        \/ UpdateSteps(p)
        \/ UpdateMultipleSteps(p)
        \/ ReadSteps(p)

Spec == Init /\ [][Next]_vars


(***************************************************************************)
(* SpecBatch: concurrent writers that each write whole batches (the six    *)
(* channels in one update_multiple) and concurrent readers of snapshots.   *)
(***************************************************************************)
BatchWrite(p) == nextTag <= MaxWrites + 1 /\ StartUpdateMultiple(p, {FullBatch})

BatchRead(p) == reads < MaxReads + 1 /\ StartGetAll(p)

NextBatch ==
    \E p \in ThreadIds :
        \/ BatchWrite(p)
        \/ um_set(p)
        \/ um_stamp(p)
        \/ um_append(p)
        \/ BatchRead(p)
        \/ get_all_return(p)

SpecBatch == Init /\ [][NextBatch]_vars

(***************************************************************************)
(* SpecSeq: one thread calling the buffer, one call after the other.       *)
(***************************************************************************)
InitSeq == InitWith({"t1"}, 0)

SpecSeq == InitSeq /\ [][Next]_vars

(***************************************************************************)
(* SpecRing: threads that write long enough for the deques to fill: first  *)
(* RingWarmup whole batches, then RingTail writes of any kind.             *)
(***************************************************************************)
RingWarmup == HistoryMaxLen - 2

\* time.time() does not move during these runs
InitRing == InitWith(ThreadIds, CHOOSE t \in Times : t + 1 \notin Times)

RingWarmupWrite(p) == nextTag <= RingWarmup /\ StartUpdateMultiple(p, {FullBatch})

\* update may also be handed 'timestamp', which has a deque of its own
RingUpdate(p) ==
    /\ nextTag > RingWarmup
    /\ nextTag <= RingWarmup + RingTail
    /\ StartUpdate(p, KeyInputs \cup {"timestamp"})

RingUpdateMultiple(p) ==
    /\ nextTag > RingWarmup
    /\ nextTag <= RingWarmup + RingTail
    /\ StartUpdateMultiple(p, BatchShapes)

NextRing ==
    \E p \in ThreadIds :
        \/ RingWarmupWrite(p)
        \/ RingUpdate(p)
        \/ RingUpdateMultiple(p)
        \/ UpdateSteps(p)
        \/ UpdateMultipleSteps(p)

SpecRing == InitRing /\ [][NextRing]_vars


(***************************************************************************)
(* random.randint                                                          *)
(***************************************************************************)
\* random is a pseudo-random generator: what randint returns is a function of the
\* generator's hidden state, and each call moves that state on. The generator here has
\* RngMod states, a prime number of them, so that all are visited whatever the number of
\* calls per turn, and every value of both ranges is drawn.
RngMod == 61

\* the states the generator may be in when the workers are created
Seeds == {0, 1}

\* the state after one call
NextRng(s) == (s + 17) % RngMod

\* random.randint(lo, hi) drawn in state s: a value of lo..hi
RandInt(lo, hi, s) == lo + (s % (hi - lo + 1))

(***************************************************************************)
(* CANThread._simulate_can: the arithmetic of one turn of the loop         *)
(***************************************************************************)
RpmIdle == 1000

RpmPeak == 13500

RpmStep == 40

SpeedScale == 100

PedalScale == 125

PedalMax == 100

CoolantLow == 180

CoolantHigh == 210

OilLow == 40

OilHigh == 65

\* int(x / y): true division, then truncation toward zero
PyIntDiv(x, y) == IF x >= 0 THEN x \div y ELSE 0 - ((0 - x) \div y)

\* min(a, b)
PyMin(a, b) == IF a <= b THEN a ELSE b

\* lines 83-85: the locals before the loop
FirstLocals == [NoLocals EXCEPT !.rpm = RpmIdle, !.speed = 0, !.rpm_direction = RpmStep]

\* a faulty variant: the rpm is not held at its limits
StepRpmUnclamped(l) ==
    LET r == l.rpm + l.rpm_direction
    IN  IF r >= RpmPeak THEN [l EXCEPT !.rpm = r, !.rpm_direction = 0 - RpmStep]
        ELSE IF r <= RpmIdle THEN [l EXCEPT !.rpm = r, !.rpm_direction = RpmStep]
        ELSE [l EXCEPT !.rpm = r]

\* lines 89-95: rpm += rpm_direction, held at 13500 and at 1000, where the direction turns
StepRpm(l) ==
    LET r == l.rpm + l.rpm_direction
    IN  IF r >= RpmPeak THEN [l EXCEPT !.rpm = RpmPeak, !.rpm_direction = 0 - RpmStep]
        ELSE IF r <= RpmIdle THEN [l EXCEPT !.rpm = RpmIdle, !.rpm_direction = RpmStep]
        ELSE [l EXCEPT !.rpm = r]

\* lines 97-107: speed, then throttle and brake by the direction the rpm has NOW, that
\* is after line 92 or 95 may have turned it
Pedals(l) ==
    LET m == [l EXCEPT !.speed = PyIntDiv(l.rpm, SpeedScale)]
    IN  IF m.rpm_direction > 0
        THEN [m EXCEPT !.throttle = PyMin(PedalMax, PyIntDiv(m.rpm - RpmIdle, PedalScale)),
                       !.brake = 0]
        ELSE [m EXCEPT !.throttle = 0,
                       !.brake = PyMin(PedalMax, PyIntDiv(RpmPeak - m.rpm, PedalScale))]

\* lines 89-107
TickLocals(l) == Pedals(StepRpm(l))

\* lines 110-117: the dict handed to update_multiple, as its list of items; the two
\* randint calls are made in the order of the dict display
CanBatch(l, s) ==
    << <<"rpm", l.rpm>>, <<"speed", l.speed>>,
       <<"coolant_temp", RandInt(CoolantLow, CoolantHigh, NextRng(s))>>,
       <<"oil_pressure", RandInt(OilLow, OilHigh, NextRng(NextRng(s)))>>,
       <<"throttle", l.throttle>>, <<"brake", l.brake>> >>

(***************************************************************************)
(* threading.Event and threading.Thread                                    *)
(***************************************************************************)
\* a faulty variant: set() flips the flag
EventToggle(flag) == ~flag

\* Event.set(): the flag is true afterwards, whatever it was
EventSet(flag) == TRUE

\* a faulty variant: the loop never sees the flag
StopNeverObserved(w) == FALSE

\* stop_event.is_set(), the test of the worker's loop
StopObserved(w) == stop_event[w]

\* the buffer and what is recorded about it
bufferVars == <<lock, data, history, clock, res, prevSnap, reads, nextTag, effect,
                written, lastWrite>>

(***************************************************************************)
(* CANThread                                                               *)
(***************************************************************************)
\* lines 73-79: run() calls _simulate_can, which sets its locals (83-85), or _read_can,
\* which is `pass`: run() returns at once and the thread ends
can_run(w) ==
    /\ pc[w] = "run"
    /\ IF simulate[w]
       THEN /\ pc' = [pc EXCEPT ![w] = "loop_87"]
            /\ locals' = [locals EXCEPT ![w] = FirstLocals]
       ELSE /\ pc' = [pc EXCEPT ![w] = "done"]
            /\ UNCHANGED locals
    /\ UNCHANGED <<bufferVars, frame, simulate, stop_event, ticks, rng, app>>

\* line 87 with the flag clear, then lines 89-107: one more turn begins
can_tick(w, cap) ==
    /\ pc[w] = "loop_87"
    /\ ~StopObserved(w)
    /\ ticks[w] < cap
    /\ locals' = [locals EXCEPT ![w] = TickLocals(@)]
    /\ ticks' = [ticks EXCEPT ![w] = @ + 1]
    /\ pc' = [pc EXCEPT ![w] = "call_110"]
    /\ UNCHANGED <<bufferVars, frame, simulate, stop_event, rng, app>>

\* line 87 with the flag set: the loop ends, _simulate_can and run() return
can_exit(w) ==
    /\ pc[w] = "loop_87"
    /\ StopObserved(w)
    /\ pc' = [pc EXCEPT ![w] = "done"]
    /\ UNCHANGED <<bufferVars, frame, workerVars>>

\* lines 110-117: self.buffer.update_multiple({...});
\* line 38: with self.lock (the call waits here until the lock is free)
can_write(w) ==
    /\ Acquire(w, "call_110", "um_40")
    /\ LET batch == CanBatch(locals[w], rng)
       IN  /\ frame' = [frame EXCEPT ![w] = [NoFrame EXCEPT !.op = "update_multiple",
                                                 !.updates = batch, !.i = 1,
                                                 !.pre = Found]]
           /\ lastWrite' = [k \in AllKeys |->
                               IF \E n \in 1..Len(batch) : batch[n][1] = k
                               THEN (CHOOSE item \in {batch[n] : n \in 1..Len(batch)} :
                                         item[1] = k)[2]
                               ELSE lastWrite[k]]
    /\ rng' = NextRng(NextRng(rng))
    /\ UNCHANGED <<data, history, clock, res, prevSnap, reads, nextTag, effect, written,
                   simulate, stop_event, locals, ticks, app>>

\* line 120: self.stop_event.wait(0.01) returns when the flag is set or the time is up
can_wait(w) ==
    /\ pc[w] = "wait_120"
    /\ pc' = [pc EXCEPT ![w] = "loop_87"]
    /\ UNCHANGED <<bufferVars, frame, workerVars>>

\* the steps of a CANThread that may begin at most `cap` turns of its loop, while its
\* flag is clear
RunSteps(w, cap) ==
    \/ can_run(w)
    \/ can_tick(w, cap)
    \/ can_write(w)
    \/ um_set(w)
    \/ um_stamp(w)
    \/ um_append(w)
    \/ can_wait(w)

\* all steps of a CANThread
CanSteps(w, cap) == RunSteps(w, cap) \/ can_exit(w)

(***************************************************************************)
(* SensorThread                                                            *)
(***************************************************************************)
\* lines 140-146: run() calls _simulate_sensors or _read_sensors, which is `pass`
sensor_run(w) ==
    /\ pc[w] = "run"
    /\ pc' = [pc EXCEPT ![w] = IF simulate[w] THEN "loop_152" ELSE "done"]
    /\ UNCHANGED <<bufferVars, frame, workerVars>>

\* a faulty variant: the simulated sensor loop stores a reading in the buffer
sensor_tick_writes(w) ==
    /\ pc[w] = "loop_152"
    /\ ~StopObserved(w)
    /\ lock = NoThread
    /\ pc' = [pc EXCEPT ![w] = "wait_153"]
    /\ data' = DictSet(data, "throttle", PedalMax)
    /\ UNCHANGED <<lock, history, clock, res, prevSnap, reads, nextTag, effect, written,
                   lastWrite, frame, workerVars>>

\* line 152 with the flag clear: one more turn begins
sensor_tick(w) ==
    /\ pc[w] = "loop_152"
    /\ ~StopObserved(w)
    /\ pc' = [pc EXCEPT ![w] = "wait_153"]
    /\ UNCHANGED <<bufferVars, frame, workerVars>>

\* line 152 with the flag set: the loop ends and run() returns
sensor_exit(w) ==
    /\ pc[w] = "loop_152"
    /\ StopObserved(w)
    /\ pc' = [pc EXCEPT ![w] = "done"]
    /\ UNCHANGED <<bufferVars, frame, workerVars>>

\* line 153: self.stop_event.wait(0.02) returns when the flag is set or the time is up
sensor_wait(w) ==
    /\ pc[w] = "wait_153"
    /\ pc' = [pc EXCEPT ![w] = "loop_152"]
    /\ UNCHANGED <<bufferVars, frame, workerVars>>

SensorSteps(w) ==
    \/ sensor_run(w)
    \/ sensor_tick(w)
    \/ sensor_wait(w)
    \/ sensor_exit(w)

(***************************************************************************)
(* The application: creating, restarting and stopping the workers          *)
(***************************************************************************)
\* the turns of its loop a CANThread may begin
MaxTicks == 2

\* line 67: def __init__(self, signal_buffer, simulate=True)
CANThreadParams == {"signal_buffer", "simulate"}

\* the arguments of CANThread(buffer, simulate=True), race_dash_core.py line 172
CoreArgs == {"signal_buffer", "simulate"}

\* the arguments of CANThread(self.signal_buffer, simulate=..., serial_port=...,
\* baud_rate=...), race_dash_gui.py lines 863-868 and 832-837
GuiArgs == {"signal_buffer", "simulate", "serial_port", "baud_rate"}

\* a call with a keyword the function does not have raises TypeError
RaisesTypeError(args) == ~(args \subseteq CANThreadParams)

\* whether the application has its threads
Built == app.can_thread # NoThread

\* a faulty variant: stop() leaves the flag alone
StopForgotten(w) ==
    /\ UNCHANGED stop_event
    /\ app' = [app EXCEPT !.stops[w] = @ + 1]

\* worker.stop(), lines 127-128 and 160-161: self.stop_event.set()
Stop(w) ==
    /\ stop_event' = [stop_event EXCEPT ![w] = EventSet(@)]
    /\ app' = [app EXCEPT !.stops[w] = @ + 1]

\* race_dash_core.py lines 169-173: the buffer exists; CANThread(buffer, simulate=cs) and
\* SensorThread(buffer, simulate=ss) are made, with cs of canModes and ss of sensorModes
CreateWorkers(canModes, sensorModes, seeds) ==
    /\ pc[MainThread] = "idle"
    /\ ~Built
    /\ ~RaisesTypeError(CoreArgs)
    /\ \E cs \in canModes, ss \in sensorModes :
        /\ simulate' = [simulate EXCEPT !["can"] = cs, !["sensor"] = ss]
        /\ app' = [app EXCEPT !.can_thread = "can", !.sensor_thread = "sensor"]
    /\ \E seed \in seeds : rng' = seed
    /\ pc' = [pc EXCEPT !["can"] = "created", !["sensor"] = "created",
                        ![MainThread] = "start_175"]
    /\ UNCHANGED <<bufferVars, frame, stop_event, locals, ticks>>

main_create == CreateWorkers(BOOLEAN, BOOLEAN, Seeds)

\* line 175: can_thread.start()
main_start_can ==
    /\ pc[MainThread] = "start_175"
    /\ pc' = [pc EXCEPT ![app.can_thread] = "run", ![MainThread] = "start_176"]
    /\ UNCHANGED <<bufferVars, frame, workerVars>>

\* line 176: sensor_thread.start()
main_start_sensor ==
    /\ pc[MainThread] = "start_176"
    /\ pc' = [pc EXCEPT ![app.sensor_thread] = "run", ![MainThread] = "idle"]
    /\ UNCHANGED <<bufferVars, frame, workerVars>>

\* RaceDashApp.build, race_dash_gui.py lines 857-872: the CANThread call of line 863
\* raises TypeError, build is left by the exception and no thread exists; were the call
\* accepted, both threads would be made and started
build ==
    /\ pc[MainThread] = "idle"
    /\ ~Built
    /\ IF RaisesTypeError(GuiArgs)
       THEN /\ pc' = [pc EXCEPT ![MainThread] = "raised"]
            /\ UNCHANGED <<simulate, app>>
       ELSE /\ pc' = [pc EXCEPT !["can"] = "run", !["sensor"] = "run"]
            /\ simulate' = [simulate EXCEPT !["can"] = app.simulate, !["sensor"] = TRUE]
            /\ app' = [app EXCEPT !.can_thread = "can", !.sensor_thread = "sensor"]
    /\ UNCHANGED <<bufferVars, frame, stop_event, locals, ticks, rng>>

\* a faulty variant: the selection is also written into the running CAN worker
select_source_live ==
    /\ pc[MainThread] = "idle"
    /\ Built
    /\ \E is_sim \in BOOLEAN :
        /\ app' = [app EXCEPT !.simulate = is_sim]
        /\ simulate' = [simulate EXCEPT ![app.can_thread] = is_sim]
    /\ UNCHANGED <<bufferVars, pc, frame, stop_event, locals, ticks, rng>>

\* SettingsScreen._select_source(is_sim), race_dash_gui.py lines 805-807
select_source ==
    /\ pc[MainThread] = "idle"
    /\ Built
    /\ \E is_sim \in BOOLEAN : app' = [app EXCEPT !.simulate = is_sim]
    /\ UNCHANGED <<bufferVars, pc, frame, simulate, stop_event, locals, ticks, rng>>

\* a screen's update_display, race_dash_gui.py line 424, and race_dash_core.py line 181:
\* the main thread calls get_all
main_read ==
    /\ Built
    /\ reads < MaxReads
    /\ StartGetAll(MainThread)

\* SettingsScreen._apply_settings, race_dash_gui.py line 828: self.app_ref.can_thread.stop()
apply_stop ==
    /\ pc[MainThread] = "idle"
    /\ Built
    /\ Stop(app.can_thread)
    /\ pc' = [pc EXCEPT ![MainThread] = "apply_829"]
    /\ UNCHANGED <<bufferVars, frame, simulate, locals, ticks, rng>>

\* line 829: join(timeout=0.5) returns when the thread has ended or the time is up,
\* whichever comes first
apply_join ==
    /\ pc[MainThread] = "apply_829"
    /\ pc' = [pc EXCEPT ![MainThread] = "apply_832"]
    /\ UNCHANGED <<bufferVars, frame, workerVars>>

\* lines 832-838: the CANThread call raises TypeError: _apply_settings is left by the
\* exception, app_ref.can_thread is still the old thread and nothing is started; were the
\* call accepted, a new CANThread of the selected source would take its place and start
apply_new ==
    /\ pc[MainThread] = "apply_832"
    /\ IF RaisesTypeError(GuiArgs)
       THEN /\ pc' = [pc EXCEPT ![MainThread] = "raised"]
            /\ app' = [app EXCEPT !.restarts = @ + 1]
            /\ UNCHANGED <<simulate, stop_event>>
       ELSE \E w \in CanWorkers :
            /\ pc[w] = "off"
            /\ pc' = [pc EXCEPT ![w] = "run", ![MainThread] = "idle"]
            /\ simulate' = [simulate EXCEPT ![w] = app.simulate]
            /\ stop_event' = [stop_event EXCEPT ![w] = FALSE]
            /\ app' = [app EXCEPT !.can_thread = w, !.restarts = @ + 1]
    /\ UNCHANGED <<bufferVars, frame, locals, ticks, rng>>

\* RaceDashApp.on_stop, race_dash_gui.py line 916: self.can_thread.stop()
on_stop_can ==
    /\ pc[MainThread] = "idle"
    /\ Built
    /\ Stop(app.can_thread)
    /\ pc' = [pc EXCEPT ![MainThread] = "on_stop_917"]
    /\ UNCHANGED <<bufferVars, frame, simulate, locals, ticks, rng>>

\* line 917: self.sensor_thread.stop()
on_stop_sensor ==
    /\ pc[MainThread] = "on_stop_917"
    /\ Stop(app.sensor_thread)
    /\ pc' = [pc EXCEPT ![MainThread] = "on_stop_920"]
    /\ UNCHANGED <<bufferVars, frame, simulate, locals, ticks, rng>>

\* lines 920-921: the two join(timeout=0.5), each over when its thread has ended or its
\* time is up; on_stop returns after the second
on_stop_join ==
    /\ pc[MainThread] \in {"on_stop_920", "on_stop_921"}
    /\ pc' = [pc EXCEPT ![MainThread] = IF @ = "on_stop_920" THEN "on_stop_921"
                                        ELSE "stopped"]
    /\ UNCHANGED <<bufferVars, frame, workerVars>>

\* what the main thread does: it creates the workers, handles events, reads the buffer
MainSteps ==
    \/ build
    \/ main_create
    \/ main_start_can
    \/ main_start_sensor
    \/ select_source
    \/ main_read
    \/ get_all_return(MainThread)
    \/ apply_stop
    \/ apply_join
    \/ apply_new
    \/ on_stop_can
    \/ on_stop_sensor
    \/ on_stop_join

\* the steps of the main thread that finish what it has begun
MainFinishes ==
    \/ main_start_can
    \/ main_start_sensor
    \/ get_all_return(MainThread)
    \/ apply_join
    \/ apply_new
    \/ on_stop_sensor
    \/ on_stop_join

\* the time at which the clock stands still
LastTime == CHOOSE t \in Times : t + 1 \notin Times

\* the application before its workers exist, the clock at its last value
InitApp == InitWith({MainThread}, LastTime)

NextApp ==
    \/ MainSteps
    \/ \E w \in CanWorkers : CanSteps(w, MaxTicks)
    \/ \E w \in SensorWorkers : SensorSteps(w)

\* the threads are scheduled fairly: a step that stays possible is taken
Fairness ==
    /\ WF_vars(MainFinishes)
    /\ \A w \in CanWorkers : WF_vars(CanSteps(w, MaxTicks))
    /\ \A w \in SensorWorkers : WF_vars(SensorSteps(w))

SpecApp == InitApp /\ [][NextApp]_vars /\ Fairness


(***************************************************************************)
(* stop() called by any thread, any number of times                        *)
(***************************************************************************)
\* the stop() calls made on one worker
MaxStops == 2

\* lines 127-128 and 160-161: a thread calls stop() on a worker that has been constructed,
\* before or after its start()
stop_call(w) ==
    /\ Built
    /\ w \in {app.can_thread, app.sensor_thread}
    /\ app.stops[w] < MaxStops
    /\ Stop(w)
    /\ UNCHANGED <<bufferVars, pc, frame, simulate, locals, ticks, rng>>

NextStop ==
    \/ main_create
    \/ main_start_can
    \/ main_start_sensor
    \/ \E w \in WorkerIds : stop_call(w)
    \/ \E w \in CanWorkers : CanSteps(w, MaxTicks)
    \/ \E w \in SensorWorkers : SensorSteps(w)

SpecStop == InitApp /\ [][NextStop]_vars

(***************************************************************************)
(* The simulated CAN worker on its own, through a whole period of its wave *)
(***************************************************************************)
\* the turns of its loop the worker may begin: the rpm peaks on turn 313 and is back at
\* 1000 on turn 626
WaveTicks == 628

\* CANThread(buffer, simulate=True) as race_dash_core.py line 172 makes it
wave_create == CreateWorkers({TRUE}, {TRUE}, Seeds)

\* nobody stops the worker
NextWave ==
    \/ wave_create
    \/ main_start_can
    \/ \E w \in CanWorkers : RunSteps(w, WaveTicks)

SpecWave == InitApp /\ [][NextWave]_vars


(***************************************************************************)
(* A client thread and the simulated CAN worker on one buffer              *)
(***************************************************************************)
\* the steps a thread takes inside a SignalBuffer method
MethodSteps(p) == UpdateSteps(p) \/ UpdateMultipleSteps(p) \/ ReadSteps(p)

\* the positions inside a `with self.lock` block
InMethod == {"update_32", "update_33", "update_34", "um_40", "um_41", "um_43",
             "get_49", "get_all_54", "gh_59"}

\* the calls the client threads make in all
LiveCalls == 2

\* the turns of its loop the worker may begin meanwhile
LiveTicks == 1

\* the client threads make calls of all five methods while the worker of live_create runs
InitLive == InitWith(ThreadIds \cup {MainThread}, LastTime)

\* a client thread makes one more call
LiveCall(p) ==
    /\ (nextTag - 1) + reads < LiveCalls
    /\ \/ StartUpdate(p, KeyInputs)
       \/ StartUpdateMultiple(p, BatchShapes)
       \/ StartGet(p)
       \/ StartGetAll(p)
       \/ StartGetHistory(p)

\* CANThread(buffer, simulate=True) as race_dash_core.py line 172 makes it; the values
\* randint draws play no part in what the lock does, so the generator starts in one state
live_create == CreateWorkers({TRUE}, {TRUE}, {CHOOSE seed \in Seeds : TRUE})

NextLive ==
    \/ \E p \in ThreadIds : LiveCall(p) \/ MethodSteps(p)
    \/ live_create
    \/ main_start_can
    \/ \E w \in CanWorkers : RunSteps(w, LiveTicks)

\* the threads are scheduled fairly: a thread inside a method goes on, and so does a
\* worker
FairnessLive ==
    /\ \A p \in ThreadIds : WF_vars(MethodSteps(p))
    /\ WF_vars(RunSteps("can", LiveTicks))

SpecLive == InitLive /\ [][NextLive]_vars /\ FairnessLive


(***************************************************************************)
(* Properties                                                              *)
(***************************************************************************)
\* the last n items of seq (all of it when it has fewer)
LastN(seq, n) == IF Len(seq) <= n THEN seq ELSE SubSeq(seq, Len(seq) - n + 1, Len(seq))

\* the values of a list of (timestamp, value) pairs
ValuesOf(q) == [n \in 1..Len(q) |-> q[n][2]]

\* the snapshots a thread holds
SnapshotsOf(p) == {o \in {res[p], prevSnap[p]} : o.kind = "get_all"}

\* C1: in SpecBatch (every writer writes whole batches), all six channel values of
\* every snapshot a get_all returned come from one batch, or all from the initial
\* state: they carry one and the same batch number, which a writer has handed out
AtomicBatch ==
    \A p \in ThreadIds : \A o \in SnapshotsOf(p) :
        /\ \A c, d \in Channels : o.val[c] = o.val[d]
        /\ \A c \in Channels : o.val[c] \in 0..(nextTag - 1)

\* a thread holds a snapshot of one batch while another thread is half way through
\* writing the next batch into data
WitnessAtomicBatch ==
    \E p, q \in ThreadIds :
        /\ res[p].kind = "get_all"
        /\ res[p].val["rpm"] = 1
        /\ pc[q] = "um_40"
        /\ data["rpm"] = 2
        /\ data["brake"] = 1

\* C2: in SpecSeq (one thread, one call after the other), whenever no call is in
\* progress get(channel) is the value of the last write call made for that channel,
\* for every declared channel
NoLostUpdates ==
    lock = NoThread => \A c \in Channels : get_result(data, c) = lastWrite[c]

\* rpm has been written twice and a get("rpm") after the second write returned
\* the second value
WitnessNoLostUpdates ==
    /\ lock = NoThread
    /\ Len(effect["rpm"]) = 2
    /\ res["t1"].kind = "get"
    /\ res["t1"].key = "rpm"
    /\ res["t1"].val = 2
    /\ lastWrite["rpm"] = 2

\* C3: every deque of history holds at most HistoryMaxLen = 100 items, in every
\* state of SpecRing (two writers, update and update_multiple, more than 100 writes)
HistoryBound == \A k \in DOMAIN history : Len(history[k]) <= HistoryMaxLen

\* a deque is full and more than HistoryMaxLen items have been appended to it
WitnessHistoryBound ==
    \E k \in DOMAIN history :
        /\ Len(history[k]) = HistoryMaxLen
        /\ Len(written[k]) >= HistoryMaxLen + 1

\* C4: once more than HistoryMaxLen pairs have been appended for a key,
\* get_history(key) has exactly HistoryMaxLen items and they are the last
\* HistoryMaxLen (timestamp, value) pairs appended, in the order of appending
RingEviction ==
    \A k \in DOMAIN history :
        Len(written[k]) > HistoryMaxLen =>
            /\ Len(get_history_result(history[k], FALSE, 0)) = HistoryMaxLen
            /\ get_history_result(history[k], FALSE, 0) = LastN(written[k], HistoryMaxLen)

\* rpm has been written HistoryMaxLen + 1 times, the last time by update, and the
\* first write is no longer in its deque
WitnessRingEviction ==
    /\ lock = NoThread
    /\ Len(written["rpm"]) = HistoryMaxLen + 1
    /\ Len(written["speed"]) < HistoryMaxLen
    /\ history["rpm"][1][2] = 2

\* C5: data and every snapshot returned by get_all hold a value for every declared
\* channel, and for a channel no write has assigned yet get(channel) and the
\* snapshot's entry are 0
SnapshotComplete ==
    /\ Channels \subseteq DOMAIN data
    /\ \A c \in Channels : effect[c] = <<>> => get_result(data, c) = 0
    /\ \A p \in ThreadIds :
        /\ \A o \in SnapshotsOf(p) :
            /\ Channels \subseteq DOMAIN o.val
            /\ \A c \in Channels : effect[c] = <<>> => DictGet(o.val, c, 1) = 0
        /\ (res[p].kind = "get" /\ effect[res[p].key] = <<>>) => res[p].val = 0

\* a thread holds a snapshot in which rpm has been written and brake has not
WitnessSnapshotComplete ==
    \E p \in ThreadIds :
        /\ res[p].kind = "get_all"
        /\ res[p].val["rpm"] > 0
        /\ effect["brake"] = <<>>
        /\ res[p].val["brake"] = 0

\* C6: the keys of data, of every snapshot returned by get_all and of history are
\* the keys fixed by __init__, whatever keys update and update_multiple are given
FixedChannelSet ==
    /\ DOMAIN data = DataKeys
    /\ DOMAIN history = DataKeys
    /\ \A p \in ThreadIds : \A o \in SnapshotsOf(p) : DOMAIN o.val = DataKeys

\* what the documentation of get_history promises for a count: the
\* min(count, len) most recent items, oldest first; everything when count is None
ExpectedHistory(q, hasCount, count) ==
    IF hasCount THEN LastN(q, IF count < Len(q) THEN count ELSE Len(q)) ELSE q

\* C7: every get_history(key, count) with count None or a non-negative int returns
\* the min(count, len) most recent items of the deque, oldest first (all of them for None)
HistoryCount ==
    [][\A p \in ThreadIds :
          (pc[p] = "gh_59" /\ pc'[p] = "idle") =>
              res'[p].val = ExpectedHistory(history[frame[p].key],
                                            frame[p].hasCount, frame[p].count)]_vars

\* what the holder of a result sees in it now
Observed(o) ==
    IF o.kind = "get_all" THEN Contents(o, data)
    ELSE IF o.kind = "get_history" THEN Contents(o, history[o.key])
    ELSE o.val

\* C8: a dict returned by get_all and a list returned by get_history do not change
\* in any step in which their holder does not receive a new result
CopyIndependence ==
    [][\A p \in ThreadIds :
          (pc[p] \notin {"get_49", "get_all_54", "gh_59"}
             /\ res[p].kind \in {"get_all", "get_history"}) =>
              Observed(res[p])' = Observed(res[p])]_vars

\* a thread holds a snapshot taken before a later update_multiple changed data
WitnessCopyIndependence ==
    \E p \in ThreadIds :
        /\ res[p].kind = "get_all"
        /\ res[p].val["rpm"] = 1
        /\ data["rpm"] = 2
        /\ data["speed"] = 2

\* C9: in SpecBatch (batches numbered in the order they entered the lock), of two
\* successive get_all results of one thread the later never holds, for any channel,
\* a batch older than the earlier result holds
MonotonicReads ==
    \A p \in ThreadIds :
        (res[p].kind = "get_all" /\ prevSnap[p].kind = "get_all") =>
            \A c \in Channels : res[p].val[c] >= prevSnap[p].val[c]

\* a thread read batch 1 and then, after another write, a later batch
WitnessMonotonicReads ==
    \E p \in ThreadIds :
        /\ res[p].kind = "get_all"
        /\ prevSnap[p].kind = "get_all"
        /\ prevSnap[p].val["rpm"] = 1
        /\ res[p].val["rpm"] > 1

\* C10: whenever no thread is inside the lock, for every declared channel the values
\* in its deque are the last HistoryMaxLen values assigned to data[channel], in the
\* order of the assignments, and the newest of them is get(channel)
HistoryOrder ==
    lock = NoThread =>
        \A c \in Channels :
            /\ ValuesOf(history[c]) = LastN(effect[c], HistoryMaxLen)
            /\ history[c] # <<>> => history[c][Len(history[c])][2] = get_result(data, c)

\* two channels last written by different calls, the deque of one of them full
WitnessHistoryOrder ==
    /\ lock = NoThread
    /\ Len(history["rpm"]) = HistoryMaxLen
    /\ Len(effect["rpm"]) > Len(effect["speed"])
    /\ data["rpm"] # data["speed"]


\* C11: the lock is held by a thread exactly while that thread is inside a SignalBuffer
\* method, so it is free again when the method has returned or raised; a worker in its
\* inter-tick wait does not hold it; and with fair scheduling a held lock is always
\* released again: every call that has entered a method leaves it, by return or by
\* exception.
NoDeadlock ==
    /\ [](\A p \in AllThreads : lock = p <=> pc[p] \in InMethod)
    /\ [](\A w \in WorkerIds : pc[w] \in {"wait_120", "loop_87"} => lock # w)
    /\ (lock # NoThread) ~> (lock = NoThread)

\* the worker has written a batch and waits, the client has made a call that raised, and
\* the lock is free
WitnessNoDeadlock ==
    /\ pc["can"] = "wait_120"
    /\ ticks["can"] = LiveTicks
    /\ pc["t1"] = "raised"
    /\ nextTag > 1
    /\ lock = NoThread

\* the state of a worker in the terms of the specification
WorkerState(w) ==
    IF pc[w] = "off" THEN "None"
    ELSE IF pc[w] = "done" THEN "Stopped"
    ELSE IF stop_event[w] THEN "StopRequested"
    ELSE IF pc[w] = "created" THEN "Created"
    ELSE "Running"

\* the workers whose start() has been called
Started == {w \in WorkerIds : pc[w] \notin {"off", "created"}}

\* C12: a worker changes state only by Created -> Running, Running -> StopRequested and
\* StopRequested -> Stopped (and comes to be as Created): no worker is Stopped without a
\* stop request, no state is skipped or entered again.
Lifecycle ==
    [][\A w \in WorkerIds :
          WorkerState(w)' # WorkerState(w) =>
              <<WorkerState(w), WorkerState(w)'>> \in
                  {<<"None", "Created">>, <<"Created", "Running">>,
                   <<"Running", "StopRequested">>, <<"StopRequested", "Stopped">>}]_vars

\* C13: with fair scheduling a simulated worker that has been started and whose stop()
\* has been called leaves its loop and ends; its inter-tick wait does not hold it back.
StopHonoured ==
    \A w \in WorkerIds :
        (w \in Started /\ simulate[w] /\ stop_event[w]) ~> (pc[w] = "done")

\* both simulated workers were stopped while they ran, the CAN worker after it had
\* written, and both have ended
WitnessStopHonoured ==
    /\ simulate["can"] /\ simulate["sensor"]
    /\ stop_event["can"] /\ stop_event["sensor"]
    /\ ticks["can"] > 0
    /\ \A k \in Channels : Len(history[k]) = ticks["can"]
    /\ pc["can"] = "done" /\ pc["sensor"] = "done"

\* C14: a stop() call on a worker whose stop() has been called before, or which has
\* ended, changes nothing but the count of the calls: the flags, the workers' positions
\* and locals and the buffer are as they were.
StopIdempotent ==
    [][\A w \in WorkerIds :
          (stop_call(w) /\ (stop_event[w] \/ (pc[w] = "done" /\ app.stops[w] > 0))) =>
              UNCHANGED <<bufferVars, pc, frame, simulate, stop_event, locals, ticks, rng>>]_vars

\* stop() has been called twice on the simulated CAN worker and twice on the sensor
\* worker, the second time on the CAN worker after it had ended
WitnessStopIdempotent ==
    /\ app.stops["can"] = MaxStops
    /\ app.stops["sensor"] = MaxStops
    /\ simulate["can"] /\ pc["can"] = "done" /\ ticks["can"] > 0
    /\ stop_event["can"] /\ stop_event["sensor"]

\* a run of _apply_settings has come to its end and no other handler has begun
RestartOver == app.restarts > 0 /\ pc[MainThread] \in {"idle", "raised"}

\* C15: after a restart exactly one CAN worker is Running, whatever source is selected
\* and whether or not the old worker has ended; and never are two CAN workers inside
\* a write at once.
RestartOneRunning ==
    /\ RestartOver => Cardinality({w \in CanWorkers : WorkerState(w) = "Running"}) = 1
    /\ Cardinality({w \in CanWorkers : pc[w] \in InMethod}) <= 1

\* C16: the step that ends _apply_settings creates and starts a new CAN worker of the
\* selected source, whether or not the old worker has ended.
RestartStartsNew ==
    [][app'.restarts # app.restarts =>
          \E w \in CanWorkers :
              /\ pc[w] = "off"
              /\ w \in Started'
              /\ app'.can_thread = w
              /\ simulate'[w] = app.simulate]_vars

\* on_stop has made its two stop() calls
ShutdownBegun == pc[MainThread] \in {"on_stop_920", "on_stop_921", "stopped"}

RpmAt(K) == IF K <= 0 THEN RpmIdle ELSE effect["rpm"][K]

\* whether the wave rises on tick K: it left the idle limit on the tick before, or it
\* rose on the tick before without reaching the peak
RisesAt(K) ==
    \/ RpmAt(K - 1) = RpmIdle
    \/ RpmAt(K - 1) # RpmPeak /\ RpmAt(K - 1) > RpmAt(K - 2)

\* C18: the rpm written on tick K is 1000 + 40*K as long as that is below 13500; every
\* written rpm is within 1000..13500; a rising wave goes up by 40 and is held at 13500,
\* after which it falls; a falling wave goes down by 40 and is held at 1000, after
\* which it rises.
TriangleWave ==
    \A K \in 1..Len(effect["rpm"]) :
        /\ RpmAt(K) \in RpmIdle..RpmPeak
        /\ RpmIdle + RpmStep * K < RpmPeak => RpmAt(K) = RpmIdle + RpmStep * K
        /\ IF RisesAt(K)
           THEN RpmAt(K) = PyMin(RpmAt(K - 1) + RpmStep, RpmPeak)
           ELSE RpmAt(K) = 0 - PyMin(RpmStep - RpmAt(K - 1), 0 - RpmIdle)

\* the wave has gone through a whole period: up to the peak, down to the idle limit, and
\* up again
WitnessTriangleWave ==
    /\ Len(effect["rpm"]) = WaveTicks
    /\ \E K \in 2..(WaveTicks - 3) :
        /\ RpmAt(K) = RpmPeak /\ RpmAt(K - 1) = RpmPeak - (RpmStep \div 2)
        /\ RpmAt(K + 1) = RpmPeak - RpmStep
    /\ \E K \in 2..(WaveTicks - 1) :
        /\ RpmAt(K) = RpmIdle /\ RpmAt(K - 1) = RpmIdle + (RpmStep \div 2)
        /\ RpmAt(K + 1) = RpmIdle + RpmStep

\* C19: the batch with rpm 13500 has throttle 100 and brake 0; the batch of the next
\* tick has throttle 0 and a brake that starts from 0.
PeakBoundary ==
    lock = NoThread =>
        \A K \in 1..Len(effect["rpm"]) :
            /\ RpmAt(K) = RpmPeak =>
                   effect["throttle"][K] = PedalMax /\ effect["brake"][K] = 0
            /\ RpmAt(K - 1) = RpmPeak =>
                   effect["throttle"][K] = 0 /\ effect["brake"][K] = 0

\* clamp(lo, hi, x)
Clamp(lo, hi, x) == IF x < lo THEN lo ELSE IF x > hi THEN hi ELSE x

\* C20: in a batch whose rpm is above that of the tick before, throttle is
\* clamp(0, 100, floor((rpm - 1000) / 125)) and brake is 0; in a batch whose rpm is
\* below it, throttle is 0 and brake is clamp(0, 100, floor((13500 - rpm) / 125));
\* throttle and brake are within 0..100 and never both non-zero.
PedalsByDirection ==
    lock = NoThread =>
        \A K \in 1..Len(effect["rpm"]) :
            LET throttle == effect["throttle"][K]
                brake == effect["brake"][K]
            IN  /\ RpmAt(K) > RpmAt(K - 1) =>
                       /\ throttle = Clamp(0, PedalMax, (RpmAt(K) - RpmIdle) \div PedalScale)
                       /\ brake = 0
                /\ RpmAt(K) < RpmAt(K - 1) =>
                       /\ throttle = 0
                       /\ brake = Clamp(0, PedalMax, (RpmPeak - RpmAt(K)) \div PedalScale)
                /\ throttle \in 0..PedalMax /\ brake \in 0..PedalMax
                /\ throttle = 0 \/ brake = 0


\* the get_all snapshots callers hold: the one returned last and the one held before it
HeldSnapshots == {res[p] : p \in {q \in AllThreads : res[q].kind = "get_all"}}
                     \cup {prevSnap[p] : p \in {q \in AllThreads : prevSnap[q].kind = "get_all"}}

BatchesWritten == Len(written["brake"])

\* the loop turns the CAN workers have begun: loop-top checks that saw the stop signal unset
TurnsBegun == ticks["can"] + ticks["can2"]

\* C22: a CAN worker writes a batch only in a loop turn whose loop-top check saw the stop
\* signal unset (every batch belongs to a turn, a turn has at most its one batch still to
\* write); once stop() has returned no further turn begins, so at most the one batch of
\* the turn in progress is still written; a worker stopped before start() begins no turn and
\* writes nothing; a worker that is Stopped stays Stopped and the buffer changes only
\* under the lock of a worker that is not Stopped
WritesAfterStop ==
    /\ [](BatchesWritten <= TurnsBegun /\ TurnsBegun <= BatchesWritten + 1)
    /\ [](\A w \in CanWorkers : pc[w] \in {"off", "created", "run"} => ticks[w] = 0)
    /\ [][\A w \in CanWorkers : stop_event[w] => ticks'[w] = ticks[w]]_vars
    /\ [][\A w \in CanWorkers : pc[w] = "done" => pc'[w] = "done" /\ lock' # w]_vars
    /\ [][<<data, history>>' # <<data, history>> =>
              lock \in CanWorkers /\ pc[lock] # "done" /\ ticks[lock] > 0]_vars

\* stop() has returned while the worker's second batch is computed but not yet written
WitnessWritesAfterStop ==
    /\ stop_event["can"]
    /\ pc["can"] = "call_110"
    /\ ticks["can"] = MaxTicks
    /\ BatchesWritten = MaxTicks - 1

\* stop() was called on the constructed worker before its start(); it ran and ended
\* without a batch
WitnessStoppedBeforeStart ==
    /\ stop_event["can"]
    /\ simulate["can"]
    /\ pc["can"] = "done"
    /\ ticks["can"] = 0
    /\ BatchesWritten = 0


\* a buffer with its timestamps left out: the latest value of every channel and the values
\* of every history ring, oldest first
ValuesOnly(buf) ==
    [data    |-> [k \in (DOMAIN buf.data) \ {"timestamp"} |-> buf.data[k]],
     history |-> [k \in DOMAIN buf.history |-> ValuesOf(buf.history[k])]]

\* the buffer now, timestamps left out
BufferValues == ValuesOnly(Found)

\* lines 32 and 34 as one function of the buffer's values: what update(key, value) on a
\* declared channel leaves
UpdateValues(v, key, value) ==
    [data    |-> DictSet(v.data, key, value),
     history |-> [v.history EXCEPT ![key] = DequeAppend(@, value)]]

\* update(key, value) called for the first n items of a mapping, in order
RECURSIVE LoopUpdate(_, _, _)
LoopUpdate(v, items, n) ==
    IF n = 0 THEN v
    ELSE UpdateValues(LoopUpdate(v, items, n - 1), items[n][1], items[n][2])

\* the keys of a list of items
ItemKeys(items) == {items[n][1] : n \in 1..Len(items)}

\* C23: for a mapping over declared channels, a returning update_multiple(mapping) leaves
\* the latest values and the values of every history ring as update(channel, value),
\* called once per item in order on the buffer the call found, would leave them
\* (timestamps aside); a returning update on a declared channel leaves what one such
\* call is taken to leave
UpdateMultipleAsLoop ==
    [][\A p \in AllThreads :
          /\ (/\ frame[p].op = "update"
              /\ frame[p].key \in Channels
              /\ frame'[p] = NoFrame) =>
                 BufferValues' = UpdateValues(ValuesOnly(frame[p].pre),
                                              frame[p].key, frame[p].value)
          /\ (/\ frame[p].op = "update_multiple"
              /\ ItemKeys(frame[p].updates) \subseteq Channels
              /\ frame'[p] = NoFrame) =>
                 BufferValues' = LoopUpdate(ValuesOnly(frame[p].pre), frame[p].updates,
                                            Len(frame[p].updates))]_vars

\* a two-channel update_multiple has returned on rings of which one was full: its rpm
\* entry evicted the oldest, its speed entry did not
WitnessUpdateMultipleAsLoop ==
    /\ lock = NoThread
    /\ data["speed"] = RingWarmup + RingTail
    /\ data["rpm"] = RingWarmup + RingTail
    /\ data["brake"] = RingWarmup
    /\ Len(written["rpm"]) > HistoryMaxLen
    /\ Len(written["speed"]) < HistoryMaxLen


\* ring `after` is ring `before` with one entry for `value` appended and at most the
\* oldest entry dropped
OneAppended(before, after, value) ==
    /\ Len(after) >= 1
    /\ Len(after) =< HistoryMaxLen
    /\ after[Len(after)][2] = value
    /\ Len(before) - (Len(after) - 1) \in {0, 1}
    /\ SubSeq(after, 1, Len(after) - 1) = LastN(before, Len(after) - 1)

\* C24: a returning update(channel, value) on a declared channel has changed, of the
\* buffer it found, only that channel's latest value (now value), the snapshot timestamp
\* and that channel's ring (one entry appended, at most one evicted); every other
\* channel's latest value and ring are as found. A returning update_multiple has left
\* the latest value and ring of every channel outside its mapping as found.
WriteFrame ==
    [][\A p \in AllThreads :
          /\ (/\ frame[p].op = "update"
              /\ frame[p].key \in Channels
              /\ frame'[p] = NoFrame) =>
                 /\ DOMAIN data' = DOMAIN frame[p].pre.data
                 /\ data'[frame[p].key] = frame[p].value
                 /\ OneAppended(frame[p].pre.history[frame[p].key],
                                history'[frame[p].key], frame[p].value)
                 /\ \A k \in Channels \ {frame[p].key} :
                       /\ data'[k] = frame[p].pre.data[k]
                       /\ history'[k] = frame[p].pre.history[k]
                 /\ history'["timestamp"] = frame[p].pre.history["timestamp"]
          /\ (/\ frame[p].op = "update_multiple"
              /\ frame'[p] = NoFrame) =>
                 \A k \in Channels \ ItemKeys(frame[p].updates) :
                       /\ data'[k] = frame[p].pre.data[k]
                       /\ history'[k] = frame[p].pre.history[k]]_vars

\* update('rpm', value) has returned on a full rpm ring, after a two-channel batch
WitnessWriteFrame ==
    /\ lock = NoThread
    /\ data["rpm"] = RingWarmup + RingTail
    /\ data["speed"] = RingWarmup + RingTail - 1
    /\ data["throttle"] = RingWarmup
    /\ Len(written["rpm"]) = HistoryMaxLen + 1
    /\ Len(history["rpm"]) = HistoryMaxLen
    /\ Len(history["speed"]) = HistoryMaxLen - 1


\* the three read methods of SignalBuffer
ReadOps == {"get", "get_all", "get_history"}

\* C25: no step of a get, get_all or get_history call (its lock entry, its step under the
\* lock, for any key and count) changes the latest values, the snapshot timestamp or any
\* history ring, and nothing else changes them while a reader holds the lock
ReadsPure ==
    [][\A p \in AllThreads :
          \/ lock = p /\ frame[p].op \in ReadOps
          \/ lock' = p /\ frame'[p].op \in ReadOps
          => UNCHANGED <<data, history>>]_vars

\* two clients have each returned from a read while the simulated worker's batch is in
\* the buffer
WitnessReadsPure ==
    /\ lock = NoThread
    /\ res["t1"].kind = "get_history"
    /\ res["t2"].kind = "get"
    /\ data["rpm"] = RpmIdle + RpmStep
    /\ Len(history["rpm"]) = 1


\* the newest entry of a ring
Newest(q) == q[Len(q)]

\* C26: with a clock that may advance between any two reads of it, the entry an update
\* appends carries the snapshot timestamp that same update has set, and every entry an
\* update_multiple call appends carries the snapshot timestamp that call has set
WriteStampsAgree ==
    [][\A p \in AllThreads : \A k \in DOMAIN history :
          (/\ lock = p
           /\ frame[p].op \in {"update", "update_multiple"}
           /\ history'[k] # history[k]) =>
              Newest(history'[k])[1] = data["timestamp"]]_vars


\* C27: a SensorThread, simulated or not, from its construction to its end never enters
\* the buffer's lock and never has a buffer call in progress, no step that moves it
\* changes the buffer, and the buffer's contents change only under the lock of a CAN
\* worker
SensorLeavesBuffer ==
    /\ [](\A w \in SensorWorkers : lock # w /\ frame[w] = NoFrame /\ pc[w] \notin InMethod)
    /\ [][\A w \in SensorWorkers : pc'[w] # pc[w] => UNCHANGED bufferVars]_vars
    /\ [][<<data, history>>' # <<data, history>> => lock \in CanWorkers]_vars

\* the simulated sensor worker is inside its loop and the CAN worker's batches are in the
\* buffer
WitnessSensorLeavesBuffer ==
    /\ simulate["sensor"]
    /\ pc["sensor"] = "wait_153"
    /\ BatchesWritten = MaxTicks
    /\ data["rpm"] = RpmIdle + MaxTicks * RpmStep


\* C28: the simulate flag of a worker that has been constructed never changes, whatever
\* the worker's state, and a change of the selected source moves no worker and changes
\* no worker's flag, stop signal or loop variables
ConfigImmutable ==
    /\ [][\A w \in WorkerIds : pc[w] # "off" => simulate'[w] = simulate[w]]_vars
    /\ [][app'.simulate # app.simulate =>
              UNCHANGED <<pc, simulate, stop_event, locals, ticks, frame>>]_vars

\* the settings surface has selected the other source while the simulated CAN worker
\* is running with the flag of its construction
WitnessConfigImmutable ==
    /\ ~app.simulate
    /\ simulate["can"]
    /\ WorkerState("can") = "Running"
    /\ ticks["can"] = 1
    /\ pc[MainThread] = "idle"

====
